---- MODULE Spec2Model ----
(***************************************************************************)
(* A state-machine model of src/Timeline.js: the render scheduler          *)
(* (Proto.render / Proto.renderTrack and the frame callbacks render /      *)
(* renderTrack), the track registry (tracks / trackIndices and the audio   *)
(* reference counts), the AB-repeat range and the pointer handlers.        *)
(*                                                                         *)
(* The Timeline object is one record of fields (TL); every handler is an   *)
(* operator from the object before the call to the object after it, in     *)
(* the order of the statements of the source, and an action commits the    *)
(* result of one whole handler.                                            *)
(*                                                                         *)
(* Left out are the fields no modelled handler reads: the canvas and its   *)
(* caches, the cursor, the menu on show (activeMenu), and mousePos /       *)
(* mouseDownPos, which the handlers write for the cursor and for the       *)
(* periodic scroll callbacks (initResize reads mouseDownPos in the         *)
(* statement after it is set, and takes the position here).                *)
(***************************************************************************)
EXTENDS Integers, Sequences, FiniteSets, TLC

VARIABLES
    requestedTrack,  \* this.requestedTrack: the track of a pending track-only frame, or NoTrack
    requestedFrame,  \* this.requestedFrame: handle of the frame request, 0 when none
    frames,          \* the browser's outstanding animation-frame callbacks: handle -> callback
    imagesComplete,  \* this.images.complete
    lastPass,        \* what the last fired frame callback did
    tracks,          \* this.tracks
    trackIndices,    \* this.trackIndices
    height,          \* this.height
    audio,           \* this.audio: id -> [references]
    currentTool,     \* this.currentTool
    multi,           \* this.multi
    mouseDown,       \* this.mouseDown
    activeElement,   \* this.activeElement: null, a Selection or a track
    activeIndex,     \* this.activeIndex
    sliderActive,    \* this.sliderActive
    scrubActive,     \* this.scrubActive
    scrollInterval,  \* this.scrollInterval: handle of the interval timer, 0 when none
    timers,          \* the running interval timers: handle -> callback
    sliderMiddle,    \* this.slider.middle
    abRepeatSetting, \* this.abRepeatSetting
    abRepeatOn,      \* the abRepeatOn of the constructor's closure
    repeatA,         \* this.repeatA
    repeatB,         \* this.repeatB
    timeMarkerPos,   \* this.timeMarkerPos
    view,            \* this.view: [startTime, endTime]
    length,          \* the length of the constructor's closure, in seconds
    events,          \* this.events: event name -> the listeners registered, in order
    menuOptions,     \* this.menuOptions: the items of the context menu, in order
    calls,           \* the listener calls made by the last handler, in order
    emitted,         \* the notifications emitted by the last handler, in order
    error,           \* the exception the last handler threw, "none" if it returned
    lastOp           \* the last handler that ran, with its arguments

vars == <<requestedTrack, requestedFrame, frames, imagesComplete, lastPass,
          tracks, trackIndices, height, audio,
          currentTool, multi, mouseDown, activeElement,
          activeIndex, sliderActive, scrubActive, scrollInterval, timers,
          sliderMiddle, abRepeatSetting, abRepeatOn, repeatA, repeatB,
          timeMarkerPos, view, length, events, menuOptions,
          calls, emitted, error, lastOp>>

----------------------------------------------------------------------------
(* Bounds of the model *)

TrackIds == {"en", "fr", "de"}
AudioIds == {"a1"}
MaxFrameId == 4
MaxTracks == 3
MaxSegs == 1
MaxRefs == 2
MaxTimers == 2
MaxCues == 2
MaxListeners == 3
MaxWheel == 1
PlayheadTimes == {30, 90, 1800}
Lengths == {1800, 70}
ViewLengths == {1800, 70, 30}
EventNames == {"abRepeatSet", "abRepeatUnset", "jump"}
ListenerNames == {"f", "g"}
PointerXs == {15, 35}
PointerX == 15
KeyY == 20
TrackY == 40
SliderY == 100
BandYs == {40, 85}
RangeXs == {15, 20, 30, 35}
MaxConfigTracks == 2

(* Program constants *)

trackHeight == 50
trackPadding == 10
sliderHeight == 25
keyHeight == 25

ORDER == 0
SELECT == 1
MOVE == 2
REPEAT == 5
SCROLL == 6

\* the tools a host selects; MOVE stands for the tools of the default branch
\* of mouseDown (MOVE, CREATE, DELETE, SHIFT, SPLIT)
Tools == {ORDER, SELECT, MOVE, REPEAT, SCROLL}

\* params.width, params.length, params.start and params.end of the widget
width == 60
DefaultLength == 1800
DefaultStart == 0
DefaultEnd == 60

NoTrack == "null"
NoAudio == "null"
NoError == "none"
NoTime == -1
NoElement == [kind |-> "null", id |-> NoTrack, startPos |-> [x |-> 0, y |-> 0],
              dragged |-> FALSE]

----------------------------------------------------------------------------
(* The Timeline object *)

TL ==
    [requestedTrack |-> requestedTrack, requestedFrame |-> requestedFrame,
     frames |-> frames, imagesComplete |-> imagesComplete, lastPass |-> lastPass,
     tracks |-> tracks, trackIndices |-> trackIndices, height |-> height,
     audio |-> audio, currentTool |-> currentTool, multi |-> multi,
     mouseDown |-> mouseDown,
     activeElement |-> activeElement, activeIndex |-> activeIndex,
     sliderActive |-> sliderActive, scrubActive |-> scrubActive,
     scrollInterval |-> scrollInterval, timers |-> timers,
     sliderMiddle |-> sliderMiddle, abRepeatSetting |-> abRepeatSetting,
     abRepeatOn |-> abRepeatOn, repeatA |-> repeatA, repeatB |-> repeatB,
     timeMarkerPos |-> timeMarkerPos, view |-> view, length |-> length,
     events |-> events, menuOptions |-> menuOptions,
     calls |-> <<>>, emitted |-> <<>>, error |-> NoError]

Commit(s, op) ==
    /\ requestedTrack' = s.requestedTrack
    /\ requestedFrame' = s.requestedFrame
    /\ frames' = s.frames
    /\ imagesComplete' = s.imagesComplete
    /\ lastPass' = s.lastPass
    /\ tracks' = s.tracks
    /\ trackIndices' = s.trackIndices
    /\ height' = s.height
    /\ audio' = s.audio
    /\ currentTool' = s.currentTool
    /\ multi' = s.multi
    /\ mouseDown' = s.mouseDown
    /\ activeElement' = s.activeElement
    /\ activeIndex' = s.activeIndex
    /\ sliderActive' = s.sliderActive
    /\ scrubActive' = s.scrubActive
    /\ scrollInterval' = s.scrollInterval
    /\ timers' = s.timers
    /\ sliderMiddle' = s.sliderMiddle
    /\ abRepeatSetting' = s.abRepeatSetting
    /\ abRepeatOn' = s.abRepeatOn
    /\ repeatA' = s.repeatA
    /\ repeatB' = s.repeatB
    /\ timeMarkerPos' = s.timeMarkerPos
    /\ view' = s.view
    /\ length' = s.length
    /\ events' = s.events
    /\ menuOptions' = s.menuOptions
    /\ calls' = s.calls
    /\ emitted' = s.emitted
    /\ error' = s.error
    /\ lastOp' = op

Throw(s, msg) == [s EXCEPT !.error = msg]

\* the abRepeatSet getter
abRepeatSet(s) == ~(s.repeatA = NoTime \/ s.repeatB = NoTime)

\* Proto.emit: every listener of evt is called with data (a track or a time);
\* on and set are what a listener reads of abRepeatOn and abRepeatSet then
\* cb.call(that, data): the call is made; what the listener does to the
\* widget is the host's affair and is not followed
invoke(s, evt, cb) == [s EXCEPT !.calls = Append(@, [evt |-> evt, cb |-> cb])]

\* the forEach of Proto.emit without its try/catch: a throwing listener
\* ends the loop and the exception leaves emit
RECURSIVE forEachListenerUncaught(_, _, _)
forEachListenerUncaught(s, evt, fns) ==
    IF fns = <<>> THEN s
    ELSE LET s1 == invoke(s, evt, Head(fns))
         IN  IF Head(fns).throws THEN Throw(s1, "listener")
             ELSE forEachListenerUncaught(s1, evt, Tail(fns))

\* fns.forEach(function(cb){ try{cb.call(that,data);}catch(e){} })
RECURSIVE forEachListener(_, _, _)
forEachListener(s, evt, fns) ==
    IF fns = <<>> THEN s
    ELSE forEachListener(invoke(s, evt, Head(fns)), evt, Tail(fns))

emit(s, evt, id, time) ==
    LET s1 == [s EXCEPT !.emitted = Append(@, [evt |-> evt, id |-> id, time |-> time,
                                               on |-> s.abRepeatOn, set |-> abRepeatSet(s)])]
    IN  IF evt \in DOMAIN s1.events
        THEN forEachListener(s1, evt, s1.events[evt])
        ELSE s1

\* The record of a call: the handler, its arguments, and what the registry
\* and the scheduler held for them when it was called
Call(op, id, name, flag) ==
    [op |-> op, id |-> id, name |-> name, flag |-> flag,
     at |-> IF id \in DOMAIN trackIndices THEN trackIndices[id] ELSE -1,
     pending |-> requestedTrack,
     live |-> requestedFrame \in DOMAIN frames,
     x |-> 0, y |-> 0, down |-> mouseDown]

\* The record of a pointer event at pos, or of a call with two times
CallAt(op, pos, flag) ==
    [Call(op, NoTrack, NoTrack, flag) EXCEPT !.x = pos.x, !.y = pos.y]

----------------------------------------------------------------------------
(* Animation frames *)

\* requestFrame returns a handle no outstanding request has; a handle matters
\* only through the references held to it, so the least unused one stands
\* for the fresh handle of the browser
FreshFrame(s) ==
    CHOOSE i \in 1..MaxFrameId :
        /\ i \notin DOMAIN s.frames
        /\ i # s.requestedFrame
        /\ \A j \in 1..(i-1) : j \in DOMAIN s.frames \/ j = s.requestedFrame

CanRequestFrame(s) ==
    \E i \in 1..MaxFrameId : i \notin DOMAIN s.frames /\ i # s.requestedFrame

\* requestFrame(cb): the callback is outstanding under a fresh handle
requestFrame(s, cb) ==
    LET id == FreshFrame(s)
    IN  [s EXCEPT !.frames = [i \in DOMAIN s.frames \cup {id} |->
                                 IF i = id THEN cb ELSE s.frames[i]],
                  !.requestedFrame = id]

\* cancelFrame(handle): the callback, if still outstanding, never fires
cancelFrame(s, id) ==
    [s EXCEPT !.frames = [i \in DOMAIN s.frames \ {id} |-> s.frames[i]]]

RenderCb(stable) == [fn |-> "render", stable |-> stable, track |-> NoTrack]
RenderTrackCb(track) == [fn |-> "renderTrack", stable |-> FALSE, track |-> track]

\* the drawing pass a callback performs when it fires with the assets ready
PassOf(cb) ==
    IF cb.fn = "render" THEN (IF cb.stable THEN "stable" ELSE "full") ELSE "track"

\* function renderTrack(track), the track-only frame callback
renderTrackFn(s, track) ==
    [s EXCEPT !.lastPass = [pass |-> PassOf(RenderTrackCb(track)), track |-> track,
                            complete |-> s.imagesComplete],
              !.requestedTrack = NoTrack,
              !.requestedFrame = 0]

\* function render(stable) without its images.complete test
renderFnUnchecked(s, stable) ==
    [s EXCEPT !.lastPass = [pass |-> PassOf(RenderCb(stable)),
                            track |-> NoTrack, complete |-> s.imagesComplete],
              !.requestedTrack = NoTrack,
              !.requestedFrame = 0]

\* function render(stable), the full-frame callback
renderFn(s, stable) ==
    IF s.imagesComplete
    THEN [s EXCEPT !.lastPass = [pass |-> PassOf(RenderCb(stable)),
                                 track |-> NoTrack, complete |-> TRUE],
                   !.requestedTrack = NoTrack,
                   !.requestedFrame = 0]
    ELSE requestFrame([s EXCEPT !.requestedTrack = NoTrack,
                                !.lastPass = [pass |-> "deferred", track |-> NoTrack,
                                              complete |-> FALSE]],
                      RenderCb(stable))

\* Proto.renderTrack without its cancelFrame call
ProtoRenderTrackNoCancel(s, track) ==
    IF s.requestedFrame # 0
    THEN IF s.requestedTrack = track
         THEN s
         ELSE requestFrame([s EXCEPT !.requestedTrack = NoTrack], RenderCb(TRUE))
    ELSE requestFrame([s EXCEPT !.requestedTrack = track], RenderTrackCb(track))

\* Proto.renderTrack(track)
ProtoRenderTrack(s, track) ==
    IF s.requestedFrame # 0
    THEN IF s.requestedTrack = track
         THEN s
         ELSE requestFrame([cancelFrame(s, s.requestedFrame)
                               EXCEPT !.requestedTrack = NoTrack],
                           RenderCb(TRUE))
    ELSE requestFrame([s EXCEPT !.requestedTrack = track], RenderTrackCb(track))

\* Proto.render(stable)
ProtoRender(s, stable) ==
    IF s.requestedTrack # NoTrack
    THEN cancelFrame(s, s.requestedFrame)
    ELSE IF s.requestedFrame = 0
         THEN requestFrame([s EXCEPT !.requestedTrack = NoTrack], RenderCb(stable))
         ELSE s

\* The layers a pass draws on the visible canvas
Layers(pass) ==
    CASE pass = "full" -> {"background", "key", "tracks", "audio", "abRepeat",
                           "timeMarker", "slider"}
      [] pass = "stable" -> {"timeMarker", "slider"}
      [] pass = "track" -> {"track", "timeMarker"}
      [] OTHER -> {}

----------------------------------------------------------------------------
(* Scheduler actions *)

\* a caller asks for a redraw
Render ==
    \E stable \in BOOLEAN :
        /\ CanRequestFrame(TL)
        /\ Commit(ProtoRender(TL, stable),
                  Call("render", NoTrack, NoTrack, stable))

\* a track asks for the redraw of its band
RenderTrack ==
    \E t \in TrackIds :
        /\ CanRequestFrame(TL)
        /\ Commit(ProtoRenderTrack(TL, t),
                  Call("renderTrack", t, NoTrack, FALSE))

\* the browser fires an outstanding animation-frame callback
FireFrame ==
    \E id \in DOMAIN frames :
        LET cb == frames[id]
            s0 == cancelFrame(TL, id)
        IN  /\ CanRequestFrame(s0)
            /\ Commit(IF cb.fn = "render" THEN renderFn(s0, cb.stable)
                                          ELSE renderTrackFn(s0, cb.track),
                      Call("frame", cb.track, cb.fn, cb.stable))

\* the image assets finish loading
ImagesLoaded ==
    /\ ~imagesComplete
    /\ Commit([TL EXCEPT !.imagesComplete = TRUE],
              Call("imagesLoaded", NoTrack, NoTrack, FALSE))

\* the host assigns a new images object (the images setter), loaded or not
SetImages ==
    \E c \in BOOLEAN :
        /\ CanRequestFrame(TL)
        /\ Commit(ProtoRender([TL EXCEPT !.imagesComplete = c], FALSE),
                  Call("setImages", NoTrack, NoTrack, c))

----------------------------------------------------------------------------
(* The state after new Timeline(location, params): no tracks, and the      *)
(* constructor's closing this.render() has requested the first frame       *)

New ==
    [requestedTrack |-> NoTrack, requestedFrame |-> 1,
     frames |-> (1 :> RenderCb(FALSE)), imagesComplete |-> FALSE,
     lastPass |-> [pass |-> "none", track |-> NoTrack, complete |-> FALSE],
     tracks |-> <<>>, trackIndices |-> <<>>,
     height |-> keyHeight + trackPadding + sliderHeight,
     audio |-> <<>>, currentTool |-> SELECT, multi |-> FALSE,
     mouseDown |-> FALSE, activeElement |-> NoElement, activeIndex |-> -1,
     sliderActive |-> FALSE, scrubActive |-> FALSE,
     scrollInterval |-> 0, timers |-> <<>>, sliderMiddle |-> 0,
     abRepeatSetting |-> FALSE, abRepeatOn |-> FALSE,
     repeatA |-> NoTime, repeatB |-> NoTime, timeMarkerPos |-> 0,
     view |-> [startTime |-> DefaultStart, endTime |-> DefaultEnd],
     length |-> DefaultLength, events |-> <<>>, menuOptions |-> <<>>,
     calls |-> <<>>,
     emitted |-> <<>>, error |-> NoError]

\* the object is s and op is the call that made it so
Holds(s, op) ==
    /\ requestedTrack = s.requestedTrack
    /\ requestedFrame = s.requestedFrame
    /\ frames = s.frames
    /\ imagesComplete = s.imagesComplete
    /\ lastPass = s.lastPass
    /\ tracks = s.tracks
    /\ trackIndices = s.trackIndices
    /\ height = s.height
    /\ audio = s.audio
    /\ currentTool = s.currentTool
    /\ multi = s.multi
    /\ mouseDown = s.mouseDown
    /\ activeElement = s.activeElement
    /\ activeIndex = s.activeIndex
    /\ sliderActive = s.sliderActive
    /\ scrubActive = s.scrubActive
    /\ scrollInterval = s.scrollInterval
    /\ timers = s.timers
    /\ sliderMiddle = s.sliderMiddle
    /\ abRepeatSetting = s.abRepeatSetting
    /\ abRepeatOn = s.abRepeatOn
    /\ repeatA = s.repeatA
    /\ repeatB = s.repeatB
    /\ timeMarkerPos = s.timeMarkerPos
    /\ view = s.view
    /\ length = s.length
    /\ events = s.events
    /\ menuOptions = s.menuOptions
    /\ calls = s.calls
    /\ emitted = s.emitted
    /\ error = s.error
    /\ lastOp = op

Init ==
    Holds(New, [op |-> "new", id |-> NoTrack, name |-> NoTrack, flag |-> FALSE,
                at |-> -1, pending |-> NoTrack, live |-> FALSE,
                x |-> 0, y |-> 0, down |-> FALSE])

----------------------------------------------------------------------------
(* The track registry *)

Put(f, k, v) == [x \in DOMAIN f \cup {k} |-> IF x = k THEN v ELSE f[x]]
Del(f, k) == [x \in DOMAIN f \ {k} |-> f[x]]

\* this.trackIndices.hasOwnProperty(id)
hasTextTrack(s, id) == id \in DOMAIN s.trackIndices

\* this.tracks[i], i counted from 0 as in the source
TrackAt(s, i) == s.tracks[i + 1]

\* this.tracks[this.trackIndices[id]] is a track (not undefined)
Tracked(s, id) ==
    /\ id \in DOMAIN s.trackIndices
    /\ s.trackIndices[id] \in 0..(Len(s.tracks) - 1)

\* this.tracks[i] = t
SetTrackAt(s, i, t) == [s EXCEPT !.tracks[i + 1] = t]

\* The cues a text track of each label is loaded with
CuesOf(label) ==
    CASE label = "en" -> <<[startTime |-> 10, endTime |-> 20, selected |-> FALSE],
                           [startTime |-> 30, endTime |-> 40, selected |-> FALSE]>>
      [] label = "fr" -> <<[startTime |-> 15, endTime |-> 35, selected |-> FALSE]>>
      [] OTHER -> <<>>

\* new Timeline.TextTrack(this, textTrack, mime): the id of a track is the
\* label of its text track, and it starts bound to no audio track
NewTextTrack(textTrack) ==
    [id |-> textTrack.label, audioId |-> NoAudio, segs |-> textTrack.cues]

\* track.cloneTimeCodes(kind, lang, name): the time codes under a new label
CloneOf(track, name) ==
    [id |-> name, audioId |-> NoAudio,
     segs |-> [i \in DOMAIN track.segs |-> [track.segs[i] EXCEPT !.selected = FALSE]]]

\* swaptracks storing the new track at the head of the array
swaptracksAtHead(s, n, o) ==
    LET s1 == SetTrackAt(s, 0, n)
        s2 == emit(s1, "removetrack", o.id, 0)
    IN  emit(s2, "addtrack", n.id, 0)

\* function swaptracks(n, o)
swaptracks(s, n, o) ==
    LET s1 == SetTrackAt(s, s.trackIndices[n.id], n)
        s2 == emit(s1, "removetrack", o.id, 0)
    IN  emit(s2, "addtrack", n.id, 0)

\* the tail shared by addTextTrack and cloneTimeCodes: append at the next index
AppendTrack(s, key, track) ==
    LET s1 == [s EXCEPT !.trackIndices = Put(@, key, Len(s.tracks)),
                        !.tracks = Append(@, track),
                        !.height = @ + trackHeight + trackPadding]
    IN  emit(ProtoRender(s1, FALSE), "addtrack", track.id, 0)

\* Proto.addTextTrack(textTrack, mime, overwrite)
addTextTrack(s, textTrack, overwrite) ==
    IF ~overwrite /\ hasTextTrack(s, textTrack.label)
    THEN Throw(s, "Track name already in use.")
    ELSE LET track == NewTextTrack(textTrack)
         IN  IF hasTextTrack(s, textTrack.label)
             THEN swaptracks(s, track, TrackAt(s, s.trackIndices[track.id]))
             ELSE AppendTrack(s, track.id, track)

\* removeTextTrack without its renumbering loop
RenumberNone(idx, trks, i) == idx

\* this.tracks.splice(loc, 1) taking out the track after loc
SplicedNext(trks, loc) ==
    SubSeq(trks, 1, loc + 1) \o SubSeq(trks, loc + 3, Len(trks))

\* this.tracks.splice(loc, 1): the array without the track at loc
Spliced(trks, loc) ==
    SubSeq(trks, 1, loc) \o SubSeq(trks, loc + 2, Len(trks))

\* the loop for(i=loc;t=this.tracks[i];i++){ this.trackIndices[t.id] = i; }
RECURSIVE Renumber(_, _, _)
Renumber(idx, trks, i) ==
    IF i >= Len(trks) THEN idx
    ELSE Renumber(Put(idx, trks[i + 1].id, i), trks, i + 1)

\* Proto.removeTextTrack(id)
removeTextTrack(s, id) ==
    IF hasTextTrack(s, id)
    THEN LET loc == s.trackIndices[id]
             aid == TrackAt(s, loc).audioId
             s1 == IF aid \in DOMAIN s.audio
                   THEN [s EXCEPT !.audio[aid].references = @ - 1]
                   ELSE s
             track == TrackAt(s1, loc)
             rest == Spliced(s1.tracks, loc)
             s2 == [s1 EXCEPT !.tracks = rest,
                              !.trackIndices = Renumber(Del(@, id), rest, loc),
                              !.height = @ - (trackHeight + trackPadding)]
         IN  emit(ProtoRender(s2, FALSE), "removetrack", track.id, 0)
    ELSE s

\* Proto.cloneTimeCodes(tid, kind, lang, name, overwrite)
cloneTimeCodes(s, tid, name, overwrite) ==
    IF hasTextTrack(s, name) /\ ~overwrite
    THEN Throw(s, "Track name already in use.")
    ELSE IF ~Tracked(s, tid)
    THEN Throw(s, "Track does not exist")
    ELSE LET track == CloneOf(TrackAt(s, s.trackIndices[tid]), name)
         IN  IF hasTextTrack(s, name)
             THEN swaptracks(s, track, TrackAt(s, s.trackIndices[name]))
             ELSE AppendTrack(s, name, track)

\* Proto.alterTextTrack past its first check: track is this.tracks[this.trackIndices[tid]]
alterTracked(s, tid, name, overwrite) ==
    LET track == TrackAt(s, s.trackIndices[tid])
    IN  IF name # track.id /\ hasTextTrack(s, name) /\ ~overwrite
        THEN Throw(s, "Track name already in use.")
        ELSE LET s1 == IF name # track.id /\ hasTextTrack(s, name)
                       THEN removeTextTrack(s, name)
                       ELSE s
                 \* the track object is the same one wherever the removal left it
                 loc == s1.trackIndices[track.id]
                 s2 == IF name # track.id
                       THEN [s1 EXCEPT !.trackIndices = Del(Put(@, name, loc), track.id)]
                       ELSE s1
                 s3 == [s2 EXCEPT !.tracks[loc + 1].id = name]
             IN  ProtoRender(s3, FALSE)

\* alterTextTrack returning quietly when the track does not exist
alterTextTrackQuiet(s, tid, name, overwrite) ==
    IF ~Tracked(s, tid)
    THEN s
    ELSE alterTracked(s, tid, name, overwrite)

\* Proto.alterTextTrack(tid, kind, lang, name, overwrite)
alterTextTrack(s, tid, name, overwrite) ==
    IF ~Tracked(s, tid)
    THEN Throw(s, "Track does not exist")
    ELSE alterTracked(s, tid, name, overwrite)

----------------------------------------------------------------------------
(* Audio tracks *)

\* Proto.addAudioTrack(wave, id)
addAudioTrack(s, id) ==
    IF id \in DOMAIN s.audio
    THEN Throw(s, "Track with that id already loaded.")
    ELSE ProtoRender([s EXCEPT !.audio = Put(@, id, [references |-> 0])], FALSE)

\* Proto.removeAudioTrack(id)
removeAudioTrack(s, id) ==
    IF id \notin DOMAIN s.audio THEN s
    ELSE [s EXCEPT !.audio = Del(@, id)]

\* Proto.setAudioTrack(tid, aid)
setAudioTrack(s, tid, aid) ==
    IF ~hasTextTrack(s, tid) THEN s
    ELSE LET loc == s.trackIndices[tid]
             old == TrackAt(s, loc).audioId
             s1 == IF old \in DOMAIN s.audio
                   THEN [s EXCEPT !.audio[old].references = @ - 1]
                   ELSE s
             s2 == [s1 EXCEPT !.tracks[loc + 1].audioId = aid]
         IN  IF aid \in DOMAIN s2.audio
             THEN [s2 EXCEPT !.audio[aid].references = @ + 1]
             ELSE s2

\* Proto.unsetAudioTrack(tid)
unsetAudioTrack(s, tid) ==
    IF ~hasTextTrack(s, tid) THEN s
    ELSE LET loc == s.trackIndices[tid]
             aid == TrackAt(s, loc).audioId
         IN  IF aid \in DOMAIN s.audio
             THEN [s EXCEPT !.tracks[loc + 1].audioId = NoAudio,
                            !.audio[aid].references = @ - 1]
             ELSE s

\* Proto.addSegment(tid, cue, select): the track adds the cue
addSegment(s, tid, cue, select) ==
    IF ~hasTextTrack(s, tid) THEN s
    ELSE LET loc == s.trackIndices[tid]
         IN  [s EXCEPT !.tracks[loc + 1].segs =
                          Append(@, [startTime |-> cue.startTime,
                                     endTime |-> cue.endTime,
                                     selected |-> select])]

\* Proto.getTrack(id): the track, or null
getTrack(s, id) ==
    IF hasTextTrack(s, id) THEN TrackAt(s, s.trackIndices[id]).id ELSE NoTrack

\* Proto.exportTracks(id) with a string (one id) or an array of ids; the
\* serialisation leaves the widget as it was
exportTracks(s, ids) ==
    IF \E i \in DOMAIN ids : getTrack(s, ids[i]) = NoTrack
    THEN Throw(s, "Track Does Not Exist")
    ELSE s

----------------------------------------------------------------------------
(* The viewport (Timeline.View) *)

viewLength(s) == s.view.endTime - s.view.startTime

\* view.pixelToTime(x) = startTime + x * zoom, zoom = length / width
pixelToTime(s, x) == s.view.startTime + (x * viewLength(s)) \div width

\* view.center(t): the window of the same width around t, kept in [0, length]
viewCenter(s, t) ==
    LET len == viewLength(s)
        st == t - len \div 2
        st1 == IF st + len > s.length THEN s.length - len ELSE st
        st2 == IF st1 < 0 THEN 0 ELSE st1
    IN  [s EXCEPT !.view = [startTime |-> st2, endTime |-> st2 + len]]

----------------------------------------------------------------------------
(* The playhead and the AB-repeat range *)

\* the abRepeatOn setter without the abRepeatSet condition
setAbRepeatOnUnchecked(s, on) ==
    IF s.abRepeatOn # on
    THEN emit(ProtoRender([s EXCEPT !.abRepeatOn = on], FALSE),
              IF on THEN "abRepeatEnabled" ELSE "abRepeatDisabled", NoTrack, 0)
    ELSE s

\* the abRepeatOn setter
setAbRepeatOn(s, on) ==
    LET v == abRepeatSet(s) /\ on
    IN  IF s.abRepeatOn # v
        THEN emit(ProtoRender([s EXCEPT !.abRepeatOn = v], FALSE),
                  IF v THEN "abRepeatEnabled" ELSE "abRepeatDisabled", NoTrack, 0)
        ELSE s

\* the currentTime setter without the AB-repeat wraparound
setCurrentTimeNoWrap(s, t) ==
    IF t = s.timeMarkerPos THEN s
    ELSE LET time == t
             s1 == s
             stable == ~(time < s1.view.startTime) /\ ~(time > s1.view.endTime)
             s2 == IF time < s1.view.startTime
                   THEN viewCenter(s1, time - viewLength(s1) \div 4)
                   ELSE IF time > s1.view.endTime
                   THEN viewCenter(s1, time + viewLength(s1) \div 4)
                   ELSE s1
             s3 == emit([s2 EXCEPT !.timeMarkerPos = time], "timeupdate", NoTrack, time)
         IN  ProtoRender(s3, stable)

\* the currentTime setter centring the view on the new time itself
setCurrentTimeNoLead(s, t) ==
    IF t = s.timeMarkerPos THEN s
    ELSE LET wrap == s.abRepeatOn /\ t > s.repeatB
             time == IF wrap THEN s.repeatA ELSE t
             s1 == IF wrap THEN emit(s, "jump", NoTrack, s.repeatA) ELSE s
             stable == ~(time < s1.view.startTime) /\ ~(time > s1.view.endTime)
             s2 == IF stable THEN s1 ELSE viewCenter(s1, time)
             s3 == emit([s2 EXCEPT !.timeMarkerPos = time], "timeupdate", NoTrack, time)
         IN  ProtoRender(s3, stable)

\* the currentTime setter asking for a full redraw every time
setCurrentTimeFull(s, t) ==
    IF t = s.timeMarkerPos THEN s
    ELSE LET wrap == s.abRepeatOn /\ t > s.repeatB
             time == IF wrap THEN s.repeatA ELSE t
             s1 == IF wrap THEN emit(s, "jump", NoTrack, s.repeatA) ELSE s
             s2 == IF time < s1.view.startTime
                   THEN viewCenter(s1, time - viewLength(s1) \div 4)
                   ELSE IF time > s1.view.endTime
                   THEN viewCenter(s1, time + viewLength(s1) \div 4)
                   ELSE s1
             s3 == emit([s2 EXCEPT !.timeMarkerPos = time], "timeupdate", NoTrack, time)
         IN  ProtoRender(s3, FALSE)

\* the currentTime setter
setCurrentTime(s, t) ==
    IF t = s.timeMarkerPos THEN s
    ELSE LET wrap == s.abRepeatOn /\ t > s.repeatB
             time == IF wrap THEN s.repeatA ELSE t
             s1 == IF wrap THEN emit(s, "jump", NoTrack, s.repeatA) ELSE s
             stable == ~(time < s1.view.startTime) /\ ~(time > s1.view.endTime)
             s2 == IF time < s1.view.startTime
                   THEN viewCenter(s1, time - viewLength(s1) \div 4)
                   ELSE IF time > s1.view.endTime
                   THEN viewCenter(s1, time + viewLength(s1) \div 4)
                   ELSE s1
             s3 == emit([s2 EXCEPT !.timeMarkerPos = time], "timeupdate", NoTrack, time)
         IN  ProtoRender(s3, stable)

\* updateABPoints moving repeatA whatever the side of the pointer
updateABPointsLeft(s, pos) ==
    LET t == pixelToTime(s, pos.x)
    IN  ProtoRender([s EXCEPT !.repeatA = t], FALSE)

\* function updateABPoints(pos): pos.x < timeToPixel((repeatA + repeatB) / 2)
\* picks repeatA, both sides of the comparison scaled by 2 * view length
updateABPoints(s, pos) ==
    LET left == 2 * viewLength(s) * pos.x
                    < (s.repeatA + s.repeatB - 2 * s.view.startTime) * width
        t == pixelToTime(s, pos.x)
    IN  ProtoRender(IF left THEN [s EXCEPT !.repeatA = t]
                            ELSE [s EXCEPT !.repeatB = t], FALSE)

\* function resetABPoints(pos)
resetABPoints(s, pos) ==
    LET t == pixelToTime(s, pos.x)
    IN  emit([s EXCEPT !.repeatA = t, !.repeatB = t], "abRepeatSet", NoTrack, 0)

\* Proto.clearRepeat
clearRepeat(s) ==
    LET s1 == [s EXCEPT !.repeatA = NoTime, !.repeatB = NoTime,
                        !.abRepeatSetting = FALSE]
        s2 == IF s1.abRepeatOn THEN setAbRepeatOn(s1, FALSE)
                               ELSE ProtoRender(s1, FALSE)
    IN  emit(s2, "abRepeatUnset", NoTrack, 0)

Min(a, b) == IF a < b THEN a ELSE b
Max(a, b) == IF a > b THEN a ELSE b

\* Proto.setRepeat storing start and end as they are given
setRepeatUnsorted(s, start, end) ==
    LET s1 == [s EXCEPT !.repeatA = start, !.repeatB = end,
                        !.abRepeatSetting = FALSE]
        s2 == IF ~s1.abRepeatOn THEN setAbRepeatOn(s1, TRUE)
                                ELSE ProtoRender(s1, FALSE)
    IN  emit(s2, "abRepeatSet", NoTrack, 0)

\* Proto.setRepeat(start, end)
setRepeat(s, start, end) ==
    LET s1 == [s EXCEPT !.repeatA = Min(start, end), !.repeatB = Max(start, end),
                        !.abRepeatSetting = FALSE]
        s2 == IF ~s1.abRepeatOn THEN setAbRepeatOn(s1, TRUE)
                                ELSE ProtoRender(s1, FALSE)
    IN  emit(s2, "abRepeatSet", NoTrack, 0)

\* the length setter leaving view.startTime where it is
setLengthKeepStart(s, val) ==
    IF val # s.length
    THEN LET s1 == [s EXCEPT !.length = val]
             s2 == IF val < s.view.endTime
                   THEN [s1 EXCEPT !.view.endTime = val]
                   ELSE s1
         IN  ProtoRender(s2, FALSE)
    ELSE s

\* the length setter
setLength(s, val) ==
    IF val # s.length
    THEN LET vend == s.view.endTime
             vlen == vend - s.view.startTime
             s1 == [s EXCEPT !.length = val]
             s2 == IF val < vend
                   THEN [s1 EXCEPT !.view = [startTime |-> Max(0, val - vlen),
                                             endTime |-> val]]
                   ELSE s1
         IN  ProtoRender(s2, FALSE)
    ELSE s

\* view.zoom, seconds per pixel (whole while the window is a multiple of
\* the canvas width)
zoom(s) == viewLength(s) \div width

\* function mouseWheel(ev) with the pointer on the ruler; delta is 1 or -1.
\* The slider strip (slider.middle += delta) and the track area (the view
\* edges move by tenths of their distance to the pointer) are not modelled.
mouseWheelKey(s, delta) ==
    LET i == Min(Max(s.timeMarkerPos + delta * zoom(s), 0), s.length)
        s1 == IF i # s.timeMarkerPos
              THEN setCurrentTime(emit(s, "jump", NoTrack, i), i)
              ELSE s
    IN  ProtoRender(s1, FALSE)

----------------------------------------------------------------------------
(* Hit testing and the rubber-band Selection *)

\* the top of the band of the track at index i
bandTop(i) == keyHeight + trackPadding + i * (trackHeight + trackPadding)

\* Proto.indexFromPos(pos)
indexFromPos(s, pos) ==
    LET hit == {i \in 0..(Len(s.tracks) - 1) :
                   pos.y >= bandTop(i) /\ pos.y <= bandTop(i) + trackHeight}
    IN  IF hit = {} THEN -1 ELSE CHOOSE i \in hit : \A j \in hit : i <= j

\* track.segFromPos(pos): the index of the segment of the track at the time
\* of pos.x, 0 when there is none
segFromPos(s, track, pos) ==
    LET t == pixelToTime(s, pos.x)
        hit == {j \in DOMAIN track.segs :
                   track.segs[j].startTime <= t /\ t <= track.segs[j].endTime}
    IN  IF hit = {} THEN 0 ELSE CHOOSE j \in hit : \A k \in hit : j <= k

\* track.visibleSegments: the segments of the track that reach into the view
visible(s, seg) ==
    seg.startTime < s.view.endTime /\ seg.endTime > s.view.startTime

\* new Selection(tl, pos)
Selection(pos) == [kind |-> "Selection", id |-> NoTrack, startPos |-> pos,
                   dragged |-> FALSE]

\* the track as the active element of a drag
TrackElement(id) == [kind |-> "track", id |-> id, startPos |-> [x |-> 0, y |-> 0],
                     dragged |-> FALSE]

\* Selection.prototype.mouseMove(npos)
selectionMouseMove(s, npos) == [s EXCEPT !.activeElement.dragged = TRUE]

\* Selection.prototype.mouseUp, not dragged: toggle the segment under the
\* pointer or clear the selection of the track, and redraw the track
selectionClick(s, epos) ==
    LET i == indexFromPos(s, epos)
    IN  IF i = -1 THEN s
        ELSE LET track == TrackAt(s, i)
                 j == segFromPos(s, track, epos)
                 s1 == IF j # 0
                       THEN [s EXCEPT !.tracks[i + 1].segs[j].selected = ~@]
                       ELSE [s EXCEPT !.tracks[i + 1].segs =
                                [k \in DOMAIN @ |-> [@[k] EXCEPT !.selected = FALSE]]]
             IN  ProtoRenderTrack(s1, track.id)

\* the first index of tracks.slice(i, n + 1), from the top of the rectangle:
\* Math[i%theight < tl.trackHeight?'floor':'ceil'](i/theight)
firstIndex(top) ==
    LET kheight == keyHeight + trackPadding
        theight == trackHeight + trackPadding
        i == Max(0, top - kheight)
    IN  IF i % theight < trackHeight
        THEN i \div theight
        ELSE (i + theight - 1) \div theight

\* the last index of tracks.slice(i, n + 1), from the bottom of the rectangle
lastIndex(s, bottom) ==
    LET kheight == keyHeight + trackPadding
        theight == trackHeight + trackPadding
    IN  IF bottom >= s.height - sliderHeight
        THEN Len(s.tracks) - 1
        ELSE (bottom - kheight) \div theight

\* the two forEach loops of Selection.prototype.mouseUp, from track k and
\* segment j on, over the time range startTime..endTime
RECURSIVE selectIn(_, _, _, _, _, _)
selectIn(s, k, n, j, startTime, endTime) ==
    IF k > n \/ k >= Len(s.tracks) THEN s
    ELSE IF j > Len(TrackAt(s, k).segs)
    THEN selectIn(s, k + 1, n, 1, startTime, endTime)
    ELSE LET seg == TrackAt(s, k).segs[j]
         IN  IF \/ ~visible(s, seg)
                \/ seg.selected
                \/ seg.startTime >= endTime
                \/ seg.endTime <= startTime
             THEN selectIn(s, k, n, j + 1, startTime, endTime)
             ELSE selectIn(emit([s EXCEPT !.tracks[k + 1].segs[j].selected = TRUE],
                                "select", TrackAt(s, k).id, seg.startTime),
                           k, n, j + 1, startTime, endTime)

\* Selection.prototype.mouseUp, dragged: the rubber-band hit test
selectionBand(s, spos, epos) ==
    LET startTime == pixelToTime(s, Min(spos.x, epos.x))
        endTime == pixelToTime(s, Max(spos.x, epos.x))
        top == Min(spos.y, epos.y)
        bottom == Max(spos.y, epos.y)
        i == firstIndex(top)
        n == lastIndex(s, bottom)
    IN  ProtoRender(selectIn(s, i, n, 1, startTime, endTime), FALSE)

\* Selection.prototype.mouseUp(epos)
selectionMouseUp(s, epos) ==
    IF ~s.activeElement.dragged
    THEN selectionClick(s, epos)
    ELSE selectionBand(s, s.activeElement.startPos, epos)

----------------------------------------------------------------------------
(* The pointer handlers *)

\* the least handle no running timer has and scrollInterval does not hold
FreshTimer(s) ==
    CHOOSE i \in 1..(MaxTimers + 1) :
        /\ i \notin DOMAIN s.timers
        /\ i # s.scrollInterval
        /\ \A j \in 1..(i-1) : j \in DOMAIN s.timers \/ j = s.scrollInterval

\* this.scrollInterval = setInterval(fn.bind(this), 1)
setScrollInterval(s, fn) ==
    LET id == FreshTimer(s)
    IN  [s EXCEPT !.timers = Put(@, id, fn), !.scrollInterval = id]

\* clearInterval(id)
clearInterval(s, id) == [s EXCEPT !.timers = Del(@, id)]

\* function initScroll
initScroll(s) == setScrollInterval(s, "autoScroll")

\* function initResize, this.mouseDownPos being pos
initResize(s, pos) ==
    LET diff == pos.x - s.sliderMiddle
    IN  IF diff < 0 THEN setScrollInterval(s, "autoSizeL")
        ELSE IF diff > 0 THEN setScrollInterval(s, "autoSizeR")
        ELSE s

\* function mouseInactive(pos)
mouseInactive(s, pos) ==
    LET s1 == [s EXCEPT !.mouseDown = FALSE, !.activeIndex = -1]
    IN  IF s1.scrubActive THEN [s1 EXCEPT !.scrubActive = FALSE]
        ELSE IF s1.sliderActive THEN [s1 EXCEPT !.sliderActive = FALSE]
        ELSE IF s1.scrollInterval # 0
        THEN [clearInterval(s1, s1.scrollInterval) EXCEPT !.scrollInterval = 0]
        ELSE IF s1.activeElement # NoElement
        THEN [(IF s1.activeElement.kind = "Selection"
               THEN selectionMouseUp(s1, pos)
               ELSE s1) EXCEPT !.activeElement = NoElement]
        ELSE s1

\* function mouseUp(ev), past its early return
mouseUp(s, pos) ==
    LET s1 == IF s.currentTool = REPEAT
              THEN setAbRepeatOn([s EXCEPT !.abRepeatSetting = FALSE],
                                 s.repeatA # s.repeatB)
              ELSE s
    IN  mouseInactive(s1, pos)

\* function mouseOut(ev), past its early return
mouseOut(s, pos) == mouseInactive(s, pos)

\* an array element that was never assigned, or assigned undefined
undefined == [id |-> NoTrack, audioId |-> NoAudio, segs |-> <<>>]

\* every element of this.tracks is a track
Intact(trks) == \A k \in DOMAIN trks : trks[k] # undefined

\* lines 1013-1020 of mouseMove when this.activeIndex is past the end of
\* this.tracks: active is undefined, the slot at i loses its track, the
\* array grows to hold swap at activeIndex, and reading active.id throws
orderStale(s, i) ==
    LET swap == TrackAt(s, i)
        a == s.activeIndex
        grown == [k \in 1..(a + 1) |->
                    IF k = a + 1 THEN swap
                    ELSE IF k = i + 1 \/ k > Len(s.tracks) THEN undefined
                    ELSE s.tracks[k]]
    IN  Throw([s EXCEPT !.tracks = grown,
                        !.trackIndices = Put(@, swap.id, a)],
              "TypeError")

\* function mouseMove(ev)
mouseMove(s, pos) ==
    LET s1 == s
    IN  IF s1.scrollInterval # 0 THEN s1
        ELSE IF s1.scrubActive
        THEN LET i == pixelToTime(s1, pos.x)
             IN  setCurrentTime(emit(s1, "jump", NoTrack, i), i)
        ELSE IF s1.currentTool = REPEAT /\ s1.abRepeatSetting
        THEN ProtoRender(updateABPoints(s1, pos), FALSE)
        ELSE IF s1.currentTool = ORDER /\ s1.activeIndex # -1
        THEN LET i == indexFromPos(s1, pos)
             IN  IF i # -1 /\ i # s1.activeIndex
                 THEN IF s1.activeIndex >= Len(s1.tracks)
                      THEN orderStale(s1, i)
                      ELSE
                      LET swap == TrackAt(s1, i)
                          active == TrackAt(s1, s1.activeIndex)
                          s2 == SetTrackAt(SetTrackAt(s1, i, active), s1.activeIndex, swap)
                          s3 == [s2 EXCEPT !.trackIndices =
                                    Put(Put(@, swap.id, s1.activeIndex), active.id, i),
                                           !.activeIndex = i]
                      IN  ProtoRender(s3, FALSE)
                 ELSE s1
        ELSE IF s1.sliderActive THEN s1
        ELSE IF s1.activeElement # NoElement
        THEN (IF s1.activeElement.kind = "Selection"
              THEN selectionMouseMove(s1, pos)
              ELSE s1)
        ELSE s1

\* mouseDown assigning currentTime on the ruler without emitting 'jump'
mouseDownFnQuiet(s, pos, onSlider) ==
    LET s1 == [s EXCEPT !.mouseDown = TRUE]
    IN  IF pos.y > s1.height - sliderHeight - trackPadding
        THEN IF onSlider THEN [s1 EXCEPT !.sliderActive = TRUE]
             ELSE IF s1.currentTool = SCROLL THEN initResize(s1, pos)
             ELSE LET s2 == ProtoRender([s1 EXCEPT !.sliderMiddle = pos.x], FALSE)
                  IN  IF pos.y > s2.height - sliderHeight
                      THEN [s2 EXCEPT !.sliderActive = TRUE]
                      ELSE s2
        ELSE IF pos.y < keyHeight + trackPadding
        THEN LET i == pixelToTime(s1, pos.x)
             IN  setCurrentTime([s1 EXCEPT !.scrubActive = TRUE], i)
        ELSE IF s1.currentTool = REPEAT
        THEN LET s2 == [s1 EXCEPT !.abRepeatSetting = TRUE]
             IN  IF abRepeatSet(s2) THEN updateABPoints(s2, pos)
                                    ELSE resetABPoints(s2, pos)
        ELSE IF s1.currentTool = SCROLL THEN initScroll(s1)
        ELSE IF s1.currentTool = ORDER
        THEN [s1 EXCEPT !.activeIndex = indexFromPos(s1, pos)]
        ELSE IF s1.currentTool = SELECT /\ s1.multi
        THEN [s1 EXCEPT !.activeElement = Selection(pos)]
        ELSE LET i == indexFromPos(s1, pos)
             IN  IF i = -1 THEN [s1 EXCEPT !.activeElement = NoElement]
                 ELSE [s1 EXCEPT !.activeElement = TrackElement(TrackAt(s1, i).id)]

\* function mouseDown(ev), past its early return; onSlider is
\* this.slider.containsPoint(pos)
mouseDownFn(s, pos, onSlider) ==
    LET s1 == [s EXCEPT !.mouseDown = TRUE]
    IN  IF pos.y > s1.height - sliderHeight - trackPadding
        THEN IF onSlider THEN [s1 EXCEPT !.sliderActive = TRUE]
             ELSE IF s1.currentTool = SCROLL THEN initResize(s1, pos)
             ELSE LET s2 == ProtoRender([s1 EXCEPT !.sliderMiddle = pos.x], FALSE)
                  IN  IF pos.y > s2.height - sliderHeight
                      THEN [s2 EXCEPT !.sliderActive = TRUE]
                      ELSE s2
        ELSE IF pos.y < keyHeight + trackPadding
        THEN LET i == pixelToTime(s1, pos.x)
             IN  setCurrentTime(emit([s1 EXCEPT !.scrubActive = TRUE],
                                     "jump", NoTrack, i), i)
        ELSE IF s1.currentTool = REPEAT
        THEN LET s2 == [s1 EXCEPT !.abRepeatSetting = TRUE]
             IN  IF abRepeatSet(s2) THEN updateABPoints(s2, pos)
                                    ELSE resetABPoints(s2, pos)
        ELSE IF s1.currentTool = SCROLL THEN initScroll(s1)
        ELSE IF s1.currentTool = ORDER
        THEN [s1 EXCEPT !.activeIndex = indexFromPos(s1, pos)]
        ELSE IF s1.currentTool = SELECT /\ s1.multi
        THEN [s1 EXCEPT !.activeElement = Selection(pos)]
        ELSE LET i == indexFromPos(s1, pos)
             IN  IF i = -1 THEN [s1 EXCEPT !.activeElement = NoElement]
                 ELSE [s1 EXCEPT !.activeElement = TrackElement(TrackAt(s1, i).id)]

----------------------------------------------------------------------------
(* Registry actions: one call of the public operation each *)

\* a handler runs to completion and its result is the next state
Do(s, op) ==
    /\ CanRequestFrame(TL)
    /\ \E r \in {s} : Commit(r, op)

\* the text tracks the host adds: a label and (here) no cues yet
TextTrackInputs == {[label |-> l, cues |-> <<>>] : l \in TrackIds}

AddTextTrack ==
    \E textTrack \in TextTrackInputs, overwrite \in BOOLEAN :
        /\ Len(tracks) < MaxTracks \/ textTrack.label \in DOMAIN trackIndices
        /\ Do(addTextTrack(TL, textTrack, overwrite),
              Call("addTextTrack", textTrack.label, textTrack.label, overwrite))

RemoveTextTrack ==
    \E id \in TrackIds :
        Do(removeTextTrack(TL, id), Call("removeTextTrack", id, id, FALSE))

CloneTimeCodes ==
    \E tid \in TrackIds, name \in TrackIds, overwrite \in BOOLEAN :
        /\ Len(tracks) < MaxTracks \/ name \in DOMAIN trackIndices
        /\ Do(cloneTimeCodes(TL, tid, name, overwrite),
              Call("cloneTimeCodes", tid, name, overwrite))

AlterTextTrack ==
    \E tid \in TrackIds, name \in TrackIds, overwrite \in BOOLEAN :
        Do(alterTextTrack(TL, tid, name, overwrite),
           Call("alterTextTrack", tid, name, overwrite))

AddAudioTrack ==
    \E id \in AudioIds :
        Do(addAudioTrack(TL, id), Call("addAudioTrack", NoTrack, id, FALSE))

RemoveAudioTrack ==
    \E id \in AudioIds :
        Do(removeAudioTrack(TL, id), Call("removeAudioTrack", NoTrack, id, FALSE))

SetAudioTrack ==
    \E tid \in TrackIds, aid \in AudioIds :
        /\ aid \in DOMAIN audio => audio[aid].references < MaxRefs
        /\ Do(setAudioTrack(TL, tid, aid), Call("setAudioTrack", tid, aid, FALSE))

UnsetAudioTrack ==
    \E tid \in TrackIds :
        Do(unsetAudioTrack(TL, tid), Call("unsetAudioTrack", tid, NoAudio, FALSE))

NewCue == [startTime |-> 42, endTime |-> 50]

\* the number of segments on all tracks together
RECURSIVE SegCount(_)
SegCount(trks) ==
    IF trks = <<>> THEN 0 ELSE Len(Head(trks).segs) + SegCount(Tail(trks))

AddSegment ==
    \E tid \in TrackIds, select \in BOOLEAN :
        /\ tid \in DOMAIN trackIndices => SegCount(tracks) < MaxSegs
        /\ Do(addSegment(TL, tid, NewCue, select), Call("addSegment", tid, NoTrack, select))

\* one id (a string) or an array of ids
ExportInputs == {<<a>> : a \in TrackIds} \cup {<<"en", "fr">>}

ExportTracks ==
    \E ids \in ExportInputs :
        Do(exportTracks(TL, ids), Call("exportTracks", ids[1], ids[Len(ids)], Len(ids) > 1))

----------------------------------------------------------------------------------------------------------------------------------------
(* Listeners *)

\* Proto.on(name, cb)
ProtoOn(s, name, cb) ==
    IF name \in DOMAIN s.events
    THEN [s EXCEPT !.events[name] = Append(@, cb)]
    ELSE [s EXCEPT !.events = Put(@, name, <<cb>>)]

\* the listeners a host registers: each returns or throws when called
Listeners == [name : ListenerNames, throws : BOOLEAN]

\* the number of registrations under all names together
RECURSIVE Registered(_)
Registered(ev) ==
    IF DOMAIN ev = {} THEN 0
    ELSE LET n == CHOOSE k \in DOMAIN ev : TRUE
         IN  Len(ev[n]) + Registered(Del(ev, n))

On ==
    \E name \in EventNames, cb \in Listeners :
        /\ Registered(events) < MaxListeners
        /\ Do(ProtoOn(TL, name, cb), Call("on", name, cb.name, cb.throws))

\* a call of the public emit by the host
Emit ==
    \E evt \in EventNames :
        Do(emit(TL, evt, NoTrack, 0), Call("emit", evt, NoTrack, FALSE))

----------------------------------------------------------------------------
(* The context menu *)

\* the paths the host registers items under, path.split('.') of each
MenuPaths == {<<"edit">>, <<"edit", "cut">>}

\* opt = {label: optname}
MenuItem(label) ==
    [label |-> label, action |-> FALSE, condition |-> FALSE,
     hasSubmenu |-> FALSE, submenu |-> <<>>]

\* the loop for(idx = 0; (opt = submenu[idx]) && opt.label != optname; idx++):
\* the index it ends at, submenu.length when no item has the label
IndexOfLabel(submenu, optname) ==
    LET found == {i \in 0..(Len(submenu) - 1) : submenu[i + 1].label = optname}
    IN  IF found = {} THEN Len(submenu)
        ELSE CHOOSE i \in found : \A j \in found : i <= j

\* pos = Math.floor(+pos) || submenu.length
PosOr(pos, len) == IF pos = 0 THEN len ELSE pos

\* submenu.splice(pos, 0, opt)
Splice(submenu, pos, opt) ==
    LET at == IF pos > Len(submenu) THEN Len(submenu) ELSE pos
    IN  SubSeq(submenu, 1, at) \o <<opt>> \o SubSeq(submenu, at + 1, Len(submenu))

\* one round of the do-while loop of addMenuItem on one level: the level
\* with the item of the label in it, and the pos the round leaves
MenuLevel(submenu, optname, pos) ==
    IF IndexOfLabel(submenu, optname) = Len(submenu)
    THEN [menu |-> Splice(submenu, PosOr(pos, Len(submenu)), MenuItem(optname)),
          pos |-> PosOr(pos, Len(submenu))]
    ELSE [menu |-> submenu, pos |-> pos]

\* the do-while loop of addMenuItem for a path of one or two labels
MenuWithPath(top, path, pos) ==
    LET l1 == MenuLevel(top, path[1], pos)
        k1 == IndexOfLabel(l1.menu, path[1]) + 1
    IN  IF Len(path) = 1 THEN l1.menu
        ELSE LET l2 == MenuLevel(l1.menu[k1].submenu, path[2], l1.pos)
             IN  [l1.menu EXCEPT ![k1].hasSubmenu = TRUE, ![k1].submenu = l2.menu]

\* opt.action = action; opt.condition = condition when it is a function
MenuWithAction(top, path, condition) ==
    LET k1 == IndexOfLabel(top, path[1]) + 1
    IN  IF Len(path) = 1
        THEN [top EXCEPT ![k1].action = TRUE, ![k1].condition = condition \/ @]
        ELSE LET k2 == IndexOfLabel(top[k1].submenu, path[2]) + 1
             IN  [top EXCEPT ![k1].submenu[k2].action = TRUE,
                             ![k1].submenu[k2].condition = condition \/ @]

\* addMenuItem testing the action after it has made the items of the path
addMenuItemLate(s, path, action, condition, pos) ==
    LET s1 == [s EXCEPT !.menuOptions = MenuWithPath(@, path, pos)]
    IN  IF ~action THEN Throw(s1, "No Action Function")
        ELSE [s1 EXCEPT !.menuOptions = MenuWithAction(@, path, condition)]

\* Proto.addMenuItem(path, action, condition, pos); action and condition
\* say whether the argument is a function (path.split never gives an
\* empty array, so "No Path" is never thrown)
addMenuItem(s, path, action, condition, pos) ==
    IF ~action THEN Throw(s, "No Action Function")
    ELSE [s EXCEPT !.menuOptions =
             MenuWithAction(MenuWithPath(@, path, pos), path, condition)]

AddMenuItem ==
    \E path \in MenuPaths, action \in BOOLEAN, condition \in BOOLEAN, pos \in {0, 1} :
        Do(addMenuItem(TL, path, action, condition, pos),
           Call("addMenuItem", NoTrack, path[Len(path)], action))

----------------------------------------------------------------------------
(* Input actions: the host's settings and one pointer event each.  The sets
   the inputs are drawn from are the parameters, so that each specification
   keeps to the part of the canvas and the tools it is about. *)

\* the text tracks a document is opened with, cues included
LoadTextTrack(ids) ==
    \E l \in ids :
        /\ l \notin DOMAIN trackIndices
        /\ Do(addTextTrack(TL, [label |-> l, cues |-> CuesOf(l)], FALSE),
              Call("addTextTrack", l, l, FALSE))

\* tl.currentTool = tool
SetTool(tools) ==
    \E tool \in tools :
        /\ tool # currentTool
        /\ Do([TL EXCEPT !.currentTool = tool], Call("setTool", NoTrack, NoTrack, FALSE))

\* tl.multi = on
SetMulti ==
    \E on \in BOOLEAN :
        /\ on # multi
        /\ Do([TL EXCEPT !.multi = on], Call("setMulti", NoTrack, NoTrack, on))

\* the pointer positions with the given coordinates
Positions(xs, ys) == {[x |-> px, y |-> py] : px \in xs, py \in ys}

\* a press of the primary button (ev.button > 0 returns at once)
MouseDown(ps) ==
    \E pos \in ps, onSlider \in BOOLEAN :
        /\ Cardinality(DOMAIN timers) < MaxTimers
        /\ onSlider => pos.y > height - sliderHeight - trackPadding
        /\ Do(mouseDownFn(TL, pos, onSlider), CallAt("mouseDown", pos, onSlider))

MouseMove(ps) ==
    \E pos \in ps :
        Do(mouseMove(TL, pos), CallAt("mouseMove", pos, FALSE))

\* a release of the primary button while this.mouseDown (the handler returns
\* at once otherwise)
MouseUp(ps) ==
    \E pos \in ps :
        /\ mouseDown
        /\ Do(mouseUp(TL, pos), CallAt("mouseUp", pos, FALSE))

\* the pointer leaving the canvas while this.mouseDown (the handler returns
\* at once otherwise)
MouseOut(ps) ==
    \E pos \in ps :
        /\ mouseDown
        /\ Do(mouseOut(TL, pos), CallAt("mouseOut", pos, FALSE))

\* tl.abRepeatOn = on
SetAbRepeatOn ==
    \E on \in BOOLEAN :
        Do(setAbRepeatOn(TL, on), Call("setAbRepeatOn", NoTrack, NoTrack, on))

ClearRepeat == Do(clearRepeat(TL), Call("clearRepeat", NoTrack, NoTrack, FALSE))

SetRepeat(ts) ==
    \E start \in ts, end \in ts :
        Do(setRepeat(TL, start, end),
           CallAt("setRepeat", [x |-> start, y |-> end], FALSE))

\* tl.currentTime = t
SetCurrentTime(ts) ==
    \E t \in ts :
        Do(setCurrentTime(TL, t), CallAt("setCurrentTime", [x |-> t, y |-> 0], FALSE))

\* tl.length = val
SetLength(ls) ==
    \E val \in ls :
        Do(setLength(TL, val), CallAt("setLength", [x |-> val, y |-> 0], FALSE))

\* a turn of the wheel over the ruler, near either end of the timeline
MouseWheel(ps) ==
    \E pos \in ps, delta \in {-1, 1} :
        /\ pos.y <= height - sliderHeight - trackPadding
        /\ pos.y < keyHeight + trackPadding
        /\ timeMarkerPos <= MaxWheel \/ timeMarkerPos >= length - MaxWheel
        /\ Do(mouseWheelKey(TL, delta), CallAt("mouseWheel", pos, delta > 0))

NextSched == Render \/ RenderTrack \/ FireFrame \/ ImagesLoaded \/ SetImages

SpecSched == Init /\ [][NextSched]_vars

NextTracks ==
    \/ AddTextTrack \/ RemoveTextTrack \/ CloneTimeCodes \/ AlterTextTrack
    \/ FireFrame \/ ImagesLoaded

SpecTracks == Init /\ [][NextTracks]_vars

NextApi ==
    \/ AddTextTrack \/ RemoveTextTrack \/ CloneTimeCodes \/ AlterTextTrack
    \/ SetAudioTrack \/ UnsetAudioTrack \/ AddSegment \/ ExportTracks

SpecApi == Init /\ [][NextApi]_vars

\* The editor with a document open: the state after construction and
\* addTextTrack of the "en" track with its cues
InitEditor ==
    Holds(addTextTrack(New, [label |-> "en", cues |-> CuesOf("en")], FALSE),
          [op |-> "addTextTrack", id |-> "en", name |-> "en", flag |-> FALSE,
           at |-> -1, pending |-> NoTrack, live |-> TRUE,
           x |-> 0, y |-> 0, down |-> FALSE])

\* the listeners: registration, the host's own emit, and two operations of
\* the widget that emit
NextEvents == On \/ Emit \/ ClearRepeat \/ SetRepeat({PointerX})

SpecEvents == Init /\ [][NextEvents]_vars

\* the playhead: the public setter, scrubbing and the wheel on the ruler,
\* the repeat range it wraps around in, and changes of length
RulerPositions == Positions(PointerXs, {KeyY})

NextPlayhead ==
    \/ SetCurrentTime(PlayheadTimes) \/ SetLength(Lengths)
    \/ MouseDown(RulerPositions) \/ MouseMove(RulerPositions)
    \/ MouseUp(RulerPositions) \/ MouseWheel(RulerPositions)
    \/ SetRepeat(PointerXs)

SpecPlayhead == Init /\ [][NextPlayhead]_vars

\* the viewport: the playhead and the length are assigned while frames
\* fire, so that the setter meets an idle and a busy scheduler
NextView ==
    \/ SetCurrentTime(PlayheadTimes) \/ SetLength(ViewLengths)
    \/ FireFrame \/ ImagesLoaded

SpecView == Init /\ [][NextView]_vars

\* the AB-repeat range: the track area, the SELECT and REPEAT tools, and
\* the host's calls
RepeatPositions == Positions(PointerXs, {TrackY})

NextRepeat ==
    \/ SetTool({SELECT, REPEAT})
    \/ MouseDown(RepeatPositions) \/ MouseMove(RepeatPositions)
    \/ MouseUp(RepeatPositions) \/ MouseOut(RepeatPositions)
    \/ SetAbRepeatOn \/ ClearRepeat \/ SetRepeat(PointerXs) \/ SetCurrentTime(PointerXs)

SpecRepeat == InitEditor /\ [][NextRepeat]_vars

\* the pointer state machine: the ORDER, SELECT and REPEAT tools, on the
\* ruler, on the track and on the slider strip
PointerPositions ==
    Positions({PointerX}, {KeyY, SliderY}) \cup Positions(PointerXs, {TrackY})

NextPointer ==
    \/ SetTool({ORDER, SELECT, REPEAT})
    \/ MouseDown(PointerPositions) \/ MouseMove(PointerPositions)
    \/ MouseUp(PointerPositions) \/ MouseOut(PointerPositions)

SpecPointer == InitEditor /\ [][NextPointer]_vars

\* the rubber band: one or two tracks with cues, the SELECT tool, and
\* positions on the first band, on its lower edge, and below it
SelectPositions ==
    Positions(PointerXs, BandYs) \cup Positions({PointerX}, {SliderY})

NextSelect ==
    \/ LoadTextTrack({"fr"}) \/ SetMulti
    \/ MouseDown(SelectPositions) \/ MouseMove(SelectPositions)
    \/ MouseUp(SelectPositions) \/ MouseOut(SelectPositions)

SpecSelect == InitEditor /\ [][NextSelect]_vars

\* the SCROLL tool: presses on the track area start auto-scroll, presses on
\* the slider strip beside the slider start auto-resize
ScrollPositions ==
    Positions({PointerX}, {KeyY, TrackY}) \cup Positions(PointerXs, {SliderY})

NextScroll ==
    \/ SetTool({SELECT, SCROLL})
    \/ MouseDown(ScrollPositions) \/ MouseMove(ScrollPositions)
    \/ MouseUp(ScrollPositions) \/ MouseOut(ScrollPositions)

SpecScroll == InitEditor /\ [][NextScroll]_vars

\* the ORDER tool: presses and moves on the first band and on the place of
\* the second (the slider strip while one track is loaded), with tracks
\* added and removed during the drag; a behaviour is followed up to the
\* first hole in this.tracks
OrderPositions == Positions({PointerX}, {TrackY, SliderY})

OrderSetTool == Intact(tracks) /\ SetTool({SELECT, ORDER})
OrderLoad == Intact(tracks) /\ LoadTextTrack({"en", "fr"})
OrderRemove == Intact(tracks) /\ RemoveTextTrack
OrderDown == Intact(tracks) /\ MouseDown(OrderPositions)
OrderMove == Intact(tracks) /\ MouseMove(OrderPositions)
OrderUp == Intact(tracks) /\ MouseUp(OrderPositions)

NextOrder ==
    \/ OrderSetTool \/ OrderLoad \/ OrderRemove
    \/ OrderDown \/ OrderMove \/ OrderUp

SpecOrder == InitEditor /\ [][NextOrder]_vars

\* scrubbing: presses on the ruler with every tool, with and without a
\* repeat range
NextScrub ==
    \/ SetTool(Tools)
    \/ MouseDown(RulerPositions) \/ MouseMove(RulerPositions)
    \/ MouseUp(RulerPositions)
    \/ SetRepeat(PointerXs) \/ ClearRepeat \/ SetAbRepeatOn

SpecScrub == Init /\ [][NextScrub]_vars

\* the repeat range under the REPEAT tool: presses and drags at four times
\* on either side of the middle of the range, and the host's calls
RangePositions == Positions(RangeXs, {TrackY})

NextRange ==
    \/ SetTool({SELECT, REPEAT})
    \/ MouseDown(RangePositions) \/ MouseMove(RangePositions)
    \/ MouseUp(RangePositions) \/ MouseOut(RangePositions)
    \/ SetRepeat(PointerXs) \/ ClearRepeat

SpecRange == InitEditor /\ [][NextRange]_vars

\* The editor with a track that plays an audio track: the state after
\* construction, addAudioTrack("a1"), addTextTrack of "en" and
\* setAudioTrack("en", "a1")
InitConfig ==
    Holds([setAudioTrack(addTextTrack(addAudioTrack(New, "a1"),
                                      [label |-> "en", cues |-> <<>>], FALSE),
                         "en", "a1")
             EXCEPT !.emitted = <<>>],
          [op |-> "setAudioTrack", id |-> "en", name |-> "a1", flag |-> FALSE,
           at |-> 0, pending |-> NoTrack, live |-> TRUE,
           x |-> 0, y |-> 0, down |-> FALSE])

\* the calls that can fail: the registry's, the export and the menu's,
\* with the ids of ConfigIds on a registry of at most MaxConfigTracks
\* tracks, and frames firing between the calls
ConfigIds == {"en", "fr"}

ConfigAdd ==
    \E label \in ConfigIds, overwrite \in BOOLEAN :
        /\ Len(tracks) < MaxConfigTracks \/ label \in DOMAIN trackIndices
        /\ Do(addTextTrack(TL, [label |-> label, cues |-> <<>>], overwrite),
              Call("addTextTrack", label, label, overwrite))

ConfigClone ==
    \E tid \in ConfigIds, name \in ConfigIds, overwrite \in BOOLEAN :
        /\ Len(tracks) < MaxConfigTracks \/ name \in DOMAIN trackIndices
        /\ Do(cloneTimeCodes(TL, tid, name, overwrite),
              Call("cloneTimeCodes", tid, name, overwrite))

ConfigAlter ==
    \E tid \in ConfigIds, name \in ConfigIds, overwrite \in BOOLEAN :
        Do(alterTextTrack(TL, tid, name, overwrite),
           Call("alterTextTrack", tid, name, overwrite))

ConfigExport ==
    \E ids \in {<<a>> : a \in ConfigIds} \cup {<<"en", "fr">>} :
        Do(exportTracks(TL, ids), Call("exportTracks", ids[1], ids[Len(ids)], Len(ids) > 1))

NextConfig ==
    \/ ConfigAdd \/ ConfigClone \/ ConfigAlter \/ ConfigExport
    \/ AddMenuItem \/ FireFrame \/ ImagesLoaded

SpecConfig == InitConfig /\ [][NextConfig]_vars

\* the audio table and the bindings of tracks to it
NextAudio ==
    \/ AddAudioTrack \/ RemoveAudioTrack \/ SetAudioTrack \/ UnsetAudioTrack
    \/ ConfigAdd \/ ConfigAlter \/ RemoveTextTrack

SpecAudio == Init /\ [][NextAudio]_vars

----------------------------------------------------------------------------
(* The render scheduler *)

\* the call found a track-only frame pending and its callback outstanding
TrackFramePending(op) == op.live /\ op.pending # NoTrack

\* C1: a full redraw requested (Proto.render()) while a single-track frame is
\* pending cancels the track callback and schedules a full-frame callback in
\* its place: afterwards exactly one callback is outstanding and it is the
\* full pass.
C1_RenderReplacesTrackFrame ==
    (lastOp.op = "render" /\ ~lastOp.flag /\ TrackFramePending(lastOp))
        => /\ Cardinality(DOMAIN frames) = 1
           /\ \A id \in DOMAIN frames : frames[id] = RenderCb(FALSE)

\* C2: renderTrack(A) then renderTrack(B), A # B, before any frame fires:
\* exactly one callback is outstanding and the pass it performs is the full
\* one, drawing the background, the ruler and every track; no track-only
\* callback is left.
C2_TwoTracksOneFullFrame ==
    (lastOp.op = "renderTrack" /\ TrackFramePending(lastOp) /\ lastOp.pending # lastOp.id)
        => /\ Cardinality(DOMAIN frames) = 1
           /\ \A id \in DOMAIN frames :
                 /\ frames[id].fn = "render"
                 /\ {"background", "key", "tracks"} \subseteq Layers(PassOf(frames[id]))

\* C3: in every reachable state at most one animation-frame callback is
\* outstanding (scheduled and neither fired nor cancelled).
C3_AtMostOneFrame == Cardinality(DOMAIN frames) <= 1

\* C3 witness: a second track was requested over a pending track frame, the
\* pending callback was cancelled and one callback is outstanding.
C3_Witness ==
    /\ lastOp.op = "renderTrack" /\ TrackFramePending(lastOp)
    /\ lastOp.pending # lastOp.id
    /\ Cardinality(DOMAIN frames) = 1

----------------------------------------------------------------------------
(* The track registry *)

\* C4: trackIndices is the exact inverse of tracks: trackIndices[tracks[i].id]
\* = i for every index i, and trackIndices has exactly tracks.length keys.
C4_IndexIsInverse ==
    /\ Cardinality(DOMAIN trackIndices) = Len(tracks)
    /\ \A i \in 0..(Len(tracks) - 1) :
          /\ tracks[i + 1].id \in DOMAIN trackIndices
          /\ trackIndices[tracks[i + 1].id] = i

\* C4 witness: alterTextTrack renamed a track onto a name in use (overwrite),
\* removing the track of that name, which stood before it, on the way.
C4_Witness ==
    /\ lastOp.op = "alterTextTrack" /\ lastOp.flag /\ error = NoError
    /\ lastOp.at = 2
    /\ Len(emitted) = 1 /\ emitted[1].evt = "removetrack"
    /\ Len(tracks) = 2 /\ tracks[2].id = lastOp.name

\* C8: addTextTrack with a label already in trackIndices throws the
\* name-in-use error when overwrite is false; with overwrite true it succeeds
\* and puts the new track at the index the old one had, tracks.length and
\* every other track and index being as before.
C8_AddExistingLabel ==
    [][(lastOp'.op = "addTextTrack" /\ lastOp'.id \in DOMAIN trackIndices)
        => IF ~lastOp'.flag
           THEN error' = "Track name already in use."
           ELSE /\ error' = NoError
                /\ Len(tracks') = Len(tracks)
                /\ trackIndices' = trackIndices
                /\ \A i \in 1..Len(tracks) :
                      tracks'[i] = IF i = trackIndices[lastOp'.id] + 1
                                   THEN NewTextTrack([label |-> lastOp'.id, cues |-> <<>>])
                                   ELSE tracks[i]]_vars

\* C8 witness: the track in the middle of three was overwritten by a new
\* track of its label, next to a track that is bound to an audio id.
C8_Witness ==
    /\ lastOp.op = "addTextTrack" /\ lastOp.flag /\ lastOp.at = 1
    /\ error = NoError /\ Len(tracks) = 3
    /\ tracks[2].id = lastOp.id /\ tracks[2].audioId = NoAudio
    /\ tracks[1].audioId # NoAudio

\* C9: removeTextTrack(id) of the track at index k removes exactly that
\* track, lowers by one the index of every track that was after k, leaves
\* the indices before k alone and keeps the order of the remaining tracks.
C9_RemoveRenumbers ==
    [][(lastOp'.op = "removeTextTrack" /\ lastOp'.id \in DOMAIN trackIndices)
        => LET k == trackIndices[lastOp'.id]
           IN  /\ Len(tracks') = Len(tracks) - 1
               /\ \A i \in 1..Len(tracks') :
                     tracks'[i] = IF i <= k THEN tracks[i] ELSE tracks[i + 1]
               /\ DOMAIN trackIndices' = DOMAIN trackIndices \ {lastOp'.id}
               /\ \A t \in DOMAIN trackIndices' :
                     trackIndices'[t] = IF trackIndices[t] > k
                                        THEN trackIndices[t] - 1
                                        ELSE trackIndices[t]]_vars

\* C9 witness: the track at index 1 of 3 was removed.
C9_Witness ==
    /\ lastOp.op = "removeTextTrack" /\ lastOp.at = 1
    /\ Len(tracks) = 2 /\ Len(emitted) = 1

\* the public operations that take a track id
ByTrackId == {"removeTextTrack", "setAudioTrack", "unsetAudioTrack", "addSegment",
              "cloneTimeCodes", "alterTextTrack", "exportTracks"}
Throwing == {"cloneTimeCodes", "alterTextTrack", "exportTracks"}

\* C10: every public operation given a track id that is not in the registry
\* signals an error to its caller instead of returning normally.
C10_UnknownIdSignals ==
    (lastOp.op \in ByTrackId /\ lastOp.at = -1) => error # NoError

\* C10 as amended: given a track id that is not in the registry,
\* cloneTimeCodes, alterTextTrack and exportTracks throw, and removeTextTrack,
\* setAudioTrack, unsetAudioTrack and addSegment return normally; in both
\* cases the registry, the audio table, the height and the scheduler are
\* left as they were.
C10_UnknownIdThrowsOrIgnored ==
    [][(lastOp'.op \in ByTrackId /\ lastOp'.at = -1)
        => /\ (error' # NoError) <=> (lastOp'.op \in Throwing)
           /\ emitted' = <<>>
           /\ UNCHANGED <<tracks, trackIndices, audio, height,
                          requestedTrack, requestedFrame, frames>>]_vars

\* C10 witness: alterTextTrack was called on an id that is not one of the
\* two tracks of the registry, and threw.
C10_Witness ==
    /\ lastOp.op = "alterTextTrack" /\ lastOp.at = -1
    /\ Len(tracks) = 2 /\ error = "Track does not exist"

----------------------------------------------------------------------------
(* The AB-repeat range and the pointer state machine *)

\* C5: between handlers and at every notification, abRepeatOn implies that
\* repeatA and repeatB are both set; assigning abRepeatOn = true while a
\* point is null leaves it false, and clearRepeat leaves it false.
C5_RepeatOnNeedsPoints ==
    /\ abRepeatOn => abRepeatSet(TL)
    /\ \A i \in DOMAIN emitted : emitted[i].on => emitted[i].set
    /\ (lastOp.op = "setAbRepeatOn" /\ lastOp.flag /\ ~abRepeatSet(TL)) => ~abRepeatOn
    /\ lastOp.op = "clearRepeat" => ~abRepeatOn

\* clearRepeat has ended a repeat that was on, and its listeners were told
C5_Witness ==
    /\ lastOp.op = "clearRepeat"
    /\ \E i \in DOMAIN emitted : emitted[i].evt = "abRepeatDisabled"
    /\ repeatA = NoTime /\ repeatB = NoTime

\* C6: after the pointer leaves the canvas during an input state no
\* transient state is active (mouseDown, scrubActive, sliderActive,
\* scrollInterval, activeElement, activeIndex, abRepeatSetting), and in the
\* REPEAT tool abRepeatOn is (repeatA # repeatB), as after a release.
C6_MouseOutEndsInput ==
    lastOp.op = "mouseOut"
        => /\ ~mouseDown /\ ~scrubActive /\ ~sliderActive
           /\ scrollInterval = 0
           /\ activeElement = NoElement /\ activeIndex = -1
           /\ ~abRepeatSetting
           /\ currentTool = REPEAT => (abRepeatOn <=> repeatA # repeatB)

\* the band of the track at index k meets the pixel rows y0..y1
BandMeets(k, y0, y1) ==
    /\ bandTop(k) <= Max(y0, y1)
    /\ bandTop(k) + trackHeight >= Min(y0, y1)

\* the segments a rubber band from spos to epos is to select: unselected,
\* overlapping the times of the rectangle, on a track whose band meets it
Banded(spos, epos) ==
    LET t0 == pixelToTime(TL, Min(spos.x, epos.x))
        t1 == pixelToTime(TL, Max(spos.x, epos.x))
    IN  {kj \in (1..Len(tracks)) \X (1..MaxCues) :
            /\ kj[2] \in DOMAIN tracks[kj[1]].segs
            /\ ~tracks[kj[1]].segs[kj[2]].selected
            /\ tracks[kj[1]].segs[kj[2]].startTime < t1
            /\ tracks[kj[1]].segs[kj[2]].endTime > t0
            /\ BandMeets(kj[1] - 1, spos.y, epos.y)}

\* the release of this step ends a dragged rubber band
BandReleased ==
    /\ activeElement.kind = "Selection" /\ activeElement.dragged
    /\ mouseDown /\ ~scrubActive /\ ~sliderActive /\ scrollInterval = 0
    /\ lastOp'.op = "mouseUp"

\* C7: the release of a rubber band selects exactly the unselected segments
\* that overlap the rectangle's times on tracks whose band [top, top +
\* trackHeight] meets its rows, and emits one 'select' for each of them and
\* for no other segment.
C7_BandSelectsExactly ==
    [][BandReleased =>
        LET epos == [x |-> lastOp'.x, y |-> lastOp'.y]
            hit == Banded(activeElement.startPos, epos)
            selects == SelectSeq(emitted', LAMBDA e : e.evt = "select")
        IN  /\ \A k \in DOMAIN tracks : \A j \in DOMAIN tracks[k].segs :
                  tracks'[k].segs[j].selected
                      <=> (tracks[k].segs[j].selected \/ <<k, j>> \in hit)
            /\ Len(selects) = Cardinality(hit)
            /\ \A kj \in hit : \E i \in DOMAIN selects :
                  /\ selects[i].id = tracks[kj[1]].id
                  /\ selects[i].time = tracks[kj[1]].segs[kj[2]].startTime]_vars

----------------------------------------------------------------------------
(* Listeners *)

\* the listener calls a sequence of notifications is to make: for each in
\* turn, every listener registered under its name, in registration order
RECURSIVE CallsFor(_)
CallsFor(es) ==
    IF es = <<>> THEN <<>>
    ELSE LET evt == Head(es).evt
             fns == IF evt \in DOMAIN events THEN events[evt] ELSE <<>>
         IN  [i \in 1..Len(fns) |-> [evt |-> evt, cb |-> fns[i]]] \o CallsFor(Tail(es))

\* C11: emit calls every listener registered for the event exactly once, in
\* registration order, whether or not an earlier one throws, and no
\* exception of a listener reaches the caller of emit.
C11_EmitCallsEveryListener ==
    /\ calls = CallsFor(emitted)
    /\ lastOp.op \in {"emit", "clearRepeat", "setRepeat"} => error = NoError

\* emit has called a listener after one that threw
C11_Witness ==
    /\ lastOp.op = "emit"
    /\ \E i \in DOMAIN calls : \E j \in DOMAIN calls :
          i < j /\ calls[i].cb.throws /\ calls[i].evt = lastOp.id

----------------------------------------------------------------------------
(* The playhead and the viewport *)

\* C12: in every reachable state 0 <= timeMarkerPos <= length, whatever
\* the sequence of currentTime assignments, scrubbing, wheel turns on the
\* ruler, wraparounds and changes of length.
C12_PlayheadInRange == 0 <= timeMarkerPos /\ timeMarkerPos <= length

\* the step is the handler op of a pointer event
PointerStep(op) == lastOp'.op = op

\* C13: with the REPEAT tool and no range set, a press in the track area at
\* time p sets repeatA = repeatB = p with abRepeatSet true and emits
\* 'abRepeatSet'; a drag from there to a time q > p leaves repeatA = p and
\* sets repeatB = q; the release sets abRepeatOn to true when the points
\* differ and leaves it false when they are the same.
C13_RepeatDrag ==
    [][/\ (/\ PointerStep("mouseDown")
           /\ currentTool = REPEAT /\ ~abRepeatSet(TL)
           /\ lastOp'.y >= keyHeight + trackPadding
           /\ lastOp'.y <= height - sliderHeight - trackPadding)
          => /\ repeatA' = pixelToTime(TL, lastOp'.x)
             /\ repeatB' = repeatA'
             /\ abRepeatSetting' /\ ~abRepeatOn'
             /\ \E i \in DOMAIN emitted' :
                   emitted'[i].evt = "abRepeatSet" /\ emitted'[i].set
       /\ (/\ PointerStep("mouseMove")
           /\ currentTool = REPEAT /\ abRepeatSetting /\ mouseDown
           /\ ~scrubActive /\ scrollInterval = 0
           /\ repeatA = repeatB /\ pixelToTime(TL, lastOp'.x) > repeatA)
          => /\ repeatA' = repeatA
             /\ repeatB' = pixelToTime(TL, lastOp'.x)
       /\ (/\ PointerStep("mouseUp")
           /\ currentTool = REPEAT /\ abRepeatSetting /\ abRepeatSet(TL))
          => /\ repeatA' = repeatA /\ repeatB' = repeatB
             /\ abRepeatOn' <=> repeatA # repeatB]_vars

\* the release after a press at p and a drag to q > p has turned the
\* repeat on
C13_Witness ==
    /\ lastOp.op = "mouseUp" /\ currentTool = REPEAT
    /\ abRepeatOn /\ repeatA < repeatB
    /\ \E i \in DOMAIN emitted : emitted[i].evt = "abRepeatEnabled"

\* the step assigns t to currentTime while the AB-repeat is off
SetsTime(t) ==
    lastOp'.op = "setCurrentTime" /\ lastOp'.x = t /\ ~abRepeatOn

\* C14: with length 1800, view [0,60] and AB-repeat off, setting
\* currentTime = 90 re-centers the view to exactly [60,120] and sets the
\* playhead to 90.
C14_RecentersTo60 ==
    [][(SetsTime(90) /\ length = 1800 /\ view = [startTime |-> 0, endTime |-> 60])
          => /\ view' = [startTime |-> 60, endTime |-> 120]
             /\ timeMarkerPos' = 90]_vars

\* C14, amended: the view becomes [75,135], the window of the same width
\* centred a quarter of its width past the new time (90 + 15 = 105), and
\* the playhead is 90, a quarter of the way into it.
C14_RecentersQuarterAhead ==
    [][(SetsTime(90) /\ length = 1800 /\ view = [startTime |-> 0, endTime |-> 60])
          => /\ view' = [startTime |-> 75, endTime |-> 135]
             /\ timeMarkerPos' = 90]_vars

\* currentTime = 90 has been assigned to the new widget
C14_Witness ==
    /\ lastOp.op = "setCurrentTime" /\ lastOp.x = 90
    /\ length = 1800 /\ timeMarkerPos = 90 /\ view.endTime - view.startTime = 60
    /\ view.startTime > 0

\* C15: setting currentTime to a time within the view (AB-repeat off)
\* leaves the view as it is, sets timeMarkerPos to it, and asks for the
\* stable pass: no full-frame callback is scheduled, and from an idle
\* scheduler the stable callback is.
C15_InViewIsStable ==
    [][(\E t \in PlayheadTimes :
           SetsTime(t) /\ view.startTime <= t /\ t <= view.endTime)
          => /\ view' = view
             /\ timeMarkerPos' = lastOp'.x
             /\ \A id \in DOMAIN frames' :
                   id \notin DOMAIN frames => frames'[id] = RenderCb(TRUE)
             /\ (requestedFrame = 0 /\ timeMarkerPos # lastOp'.x)
                   => /\ requestedFrame' \in DOMAIN frames'
                      /\ frames'[requestedFrame'] = RenderCb(TRUE)]_vars

\* the setter has scheduled the stable pass for a time within the view
C15_Witness ==
    /\ lastOp.op = "setCurrentTime" /\ timeMarkerPos = lastOp.x
    /\ view.startTime <= timeMarkerPos /\ timeMarkerPos <= view.endTime
    /\ requestedFrame \in DOMAIN frames
    /\ frames[requestedFrame] = RenderCb(TRUE)

----------------------------------------------------------------------------
(* The render scheduler, continued *)

\* C17: renderTrack(t) requested while a full-frame callback is pending is
\* a no-op: the pending callback is neither cancelled nor replaced, and the
\* pass that fires is still the full redraw.
C17_TrackOverFullIsNoOp ==
    [][(/\ lastOp'.op = "renderTrack"
        /\ requestedTrack = NoTrack
        /\ requestedFrame \in DOMAIN frames
        /\ frames[requestedFrame] = RenderCb(FALSE))
          => /\ frames' = frames
             /\ requestedFrame' = requestedFrame
             /\ requestedTrack' = requestedTrack]_vars

\* C18: the scheduler never holds a pending flag (requestedFrame # 0 or
\* requestedTrack # null) while no callback is outstanding, so that every
\* request is followed by a pass that clears both.
C18_PendingHasCallback ==
    (requestedFrame # 0 \/ requestedTrack # NoTrack)
        => requestedFrame \in DOMAIN frames

\* C19: after render() with stable false is requested over a pending frame
\* of any kind, the pass that fires next is the full redraw: a callback is
\* outstanding and it draws the background, the ruler and all tracks.
C19_FullRenderNotLost ==
    (lastOp.op = "render" /\ ~lastOp.flag /\ lastOp.live)
        => /\ DOMAIN frames # {}
           /\ \A id \in DOMAIN frames : PassOf(frames[id]) = "full"

\* C20: no pass, full or track-only, draws while images.complete is false;
\* a render callback that fires before the assets are ready requests itself
\* again and keeps requestedFrame set.
C20_NoDrawBeforeAssets ==
    /\ lastPass.pass \in {"full", "stable", "track"} => lastPass.complete
    /\ (lastOp.op = "frame" /\ lastPass.pass = "deferred")
          => /\ requestedFrame # 0
             /\ requestedFrame \in DOMAIN frames
             /\ frames[requestedFrame].fn = "render"

\* a render callback fired before the assets were ready and is waiting again
C20_Witness ==
    /\ lastOp.op = "frame"
    /\ lastPass.pass = "deferred"
    /\ ~imagesComplete
    /\ requestedFrame \in DOMAIN frames
    /\ frames[requestedFrame].fn = "render"

----------------------------------------------------------------------------
(* The pointer state machine, continued *)

\* the input states that are active in the current state
ActiveInputs ==
    {k \in {"scrub", "slider", "scroll", "element", "order", "repeat"} :
        \/ k = "scrub" /\ scrubActive
        \/ k = "slider" /\ sliderActive
        \/ k = "scroll" /\ scrollInterval # 0
        \/ k = "element" /\ activeElement # NoElement
        \/ k = "order" /\ activeIndex # -1
        \/ k = "repeat" /\ abRepeatSetting}

\* C21: in every reachable state at most one input state is active: at most
\* one of scrubActive, sliderActive, scrollInterval # 0, activeElement # null,
\* activeIndex # -1 and abRepeatSetting holds.
C21_OneInputState == Cardinality(ActiveInputs) <= 1

\* C22: after currentTool is changed during a drag, the following pointer-up
\* returns the controller to Idle: abRepeatSetting is false, no interval
\* timer runs and no active element remains.
C22_ReleaseIsIdle ==
    [][(lastOp.op = "setTool" /\ mouseDown /\ lastOp'.op = "mouseUp")
          => /\ ~abRepeatSetting'
             /\ scrollInterval' = 0
             /\ DOMAIN timers' = {}
             /\ activeElement' = NoElement]_vars

\* C23: after every pointer-up or pointer-leave that ends a press no
\* auto-scroll or auto-resize timer remains running and scrollInterval is 0.
C23_NoTimerAfterRelease ==
    lastOp.op \in {"mouseUp", "mouseOut"}
        => /\ DOMAIN timers = {}
           /\ scrollInterval = 0

\* the track registry is sound: tracks has no hole and no track twice, and
\* trackIndices maps exactly the ids of the tracks to their places
Bijective(trks, idx) ==
    /\ Intact(trks)
    /\ DOMAIN idx = {trks[k].id : k \in DOMAIN trks}
    /\ \A k \in DOMAIN trks : idx[trks[k].id] = k - 1

\* a pointer-move of a ReorderingTrack drag onto another track's band
OrderMoveOnto(i) ==
    /\ lastOp'.op = "mouseMove"
    /\ scrollInterval = 0 /\ ~scrubActive
    /\ currentTool = ORDER /\ activeIndex # -1
    /\ i = indexFromPos(TL, [x |-> lastOp'.x, y |-> lastOp'.y])
    /\ i # -1 /\ i # activeIndex

\* C24: during a ReorderingTrack drag each pointer-move onto a track index
\* i # activeIndex exchanges exactly the tracks at i and activeIndex, sets
\* activeIndex to i and requests a redraw, and tracks stays a hole-free
\* permutation with trackIndices as its inverse, also when tracks are added
\* or removed between the press and the moves.
C24_DragSwapsTracks ==
    [][\A i \in 0..(MaxTracks - 1) :
          OrderMoveOnto(i)
            => /\ activeIndex < Len(tracks)
               /\ tracks' = [tracks EXCEPT ![i + 1] = tracks[activeIndex + 1],
                                           ![activeIndex + 1] = tracks[i + 1]]
               /\ activeIndex' = i
               /\ requestedFrame' # 0
               /\ Bijective(tracks', trackIndices')]_vars

----------------------------------------------------------------------------
(* Scrubbing *)

\* the step is a primary press on the ruler, outside the slider strip
RulerPress ==
    /\ PointerStep("mouseDown")
    /\ lastOp'.y < keyHeight + trackPadding
    /\ lastOp'.y <= height - sliderHeight - trackPadding

----------------------------------------------------------------------------
(* The AB-repeat range, continued *)

\* C26: whenever repeatA and repeatB are both set, repeatA <= repeatB, after
\* any sequence of REPEAT presses, drags, releases, setRepeat and clearRepeat.
C26_RangeOrdered == abRepeatSet(TL) => repeatA <= repeatB

\* a drag has moved repeatB and then, left of the middle, repeatA
C26_Witness ==
    /\ lastOp.op = "mouseMove" /\ currentTool = REPEAT /\ abRepeatSetting
    /\ repeatA = 20 /\ repeatB = 30
    /\ pixelToTime(TL, lastOp.x) = repeatA

\* the step assigns a time other than the playhead's to currentTime
Assigns(t) ==
    /\ lastOp'.op = "setCurrentTime" /\ lastOp'.x = t
    /\ t # timeMarkerPos

\* the events the handler of the step has emitted, by name
Emitted(evt) == {i \in DOMAIN emitted' : emitted'[i].evt = evt}

\* C27: when abRepeatOn is true and currentTime is set to t > repeatB, the
\* playhead becomes repeatA and 'jump' carrying repeatA is emitted before
\* 'timeupdate'; when abRepeatOn is false or t <= repeatB the playhead
\* becomes t and the setter emits no 'jump'.
C27_WrapsToRepeatA ==
    [][\A t \in PlayheadTimes \cup PointerXs :
          /\ (Assigns(t) /\ abRepeatOn /\ t > repeatB)
                => /\ timeMarkerPos' = repeatA
                   /\ \E i \in Emitted("jump"), j \in Emitted("timeupdate") :
                         i < j /\ emitted'[i].time = repeatA
          /\ (lastOp'.op = "setCurrentTime" /\ lastOp'.x = t
                /\ (~abRepeatOn \/ t <= repeatB))
                => /\ timeMarkerPos' = t
                   /\ Emitted("jump") = {}]_vars

\* a time past repeatB was assigned with the repeat on and the playhead
\* went back to repeatA
C27_Witness ==
    /\ lastOp.op = "setCurrentTime" /\ abRepeatOn
    /\ lastOp.x > repeatB /\ timeMarkerPos = repeatA /\ repeatA < repeatB
    /\ \E i \in DOMAIN emitted : emitted[i].evt = "jump" /\ emitted[i].time = repeatA

\* C30: whenever abRepeatOn is true the range is not empty: repeatA < repeatB.
C30_EnabledRangeNotEmpty == abRepeatOn => repeatA < repeatB

----------------------------------------------------------------------------
(* Configuration errors *)

\* the calls the claim names
Failable == {"addTextTrack", "cloneTimeCodes", "alterTextTrack",
             "exportTracks", "addMenuItem"}

\* C28: whenever addTextTrack, cloneTimeCodes, alterTextTrack, exportTracks
\* or addMenuItem throws, tracks, trackIndices, height, the audio reference
\* counts, the menu tree and the scheduler state are as before the call.
C28_ThrowLeavesState ==
    [][(lastOp'.op \in Failable /\ error' # NoError)
          => UNCHANGED <<tracks, trackIndices, height, audio, menuOptions,
                         requestedTrack, requestedFrame, frames>>]_vars

\* addMenuItem has thrown for a path not yet in a menu that has items, with
\* tracks and a bound audio track in the registry
C28_Witness ==
    /\ lastOp.op = "addMenuItem" /\ error = "No Action Function"
    /\ lastOp.name = "cut" /\ menuOptions # <<>>
    /\ \A k \in DOMAIN menuOptions : menuOptions[k].submenu = <<>>
    /\ tracks # <<>>
    /\ \E a \in DOMAIN audio : audio[a].references > 0

----------------------------------------------------------------------------
(* Audio reference counts *)

\* the number of tracks of the registry bound to the audio track a
Bound(a) == Cardinality({k \in DOMAIN tracks : tracks[k].audioId = a})

\* C29: for every audio track a of the audio table, a.references is the
\* number of tracks whose audioId is a's id, and is never negative.
C29_ReferencesCountBindings ==
    \A a \in DOMAIN audio :
        /\ audio[a].references = Bound(a)
        /\ audio[a].references >= 0

====
